---- MODULE Spec2Model ----
(***************************************************************************)
(* Model of the survey bot of src/bot.py: the per-user session store       *)
(* STATE, the message and callback handlers the router dispatches to, and  *)
(* the completion routine finish_survey with its two stores.               *)
(*                                                                         *)
(* bot.py defines most handlers twice.  The router keeps handlers in the   *)
(* order of registration and runs the first whose filter matches, so the   *)
(* handlers that run are the first definitions (lines 285-445).  A plain   *)
(* call such as ask_next_question(...) is resolved in the module's         *)
(* namespace when the call is made, so it reaches the LAST definition      *)
(* (line 454), and FEATURES is the list bound at line 202.                 *)
(*                                                                         *)
(* Strings are sequences of one-character strings, so that strip() and     *)
(* join() are computed and not assumed.  "D","a" stand for the Cyrillic    *)
(* capital and small letters of the option label at line 217, "d" for the  *)
(* small form of the first letter.                                         *)
(***************************************************************************)
EXTENDS Integers, Sequences, FiniteSets, TLC

VARIABLES
    state,          \* bot.py:231 STATE (a reserved word here): user id -> session record (a dict: users without a record are not in the domain)
    sheet_rows,     \* rows appended to the worksheet (bot.py:182)
    responses_csv,  \* rows written to responses.csv (bot.py:593-597)
    log_errors,     \* log.exception / log.warning records of the persistence code
    pending,        \* user id -> number of handlers suspended at the await before ask_next_question
    last,           \* what the latest handler step did (observation of messages, exceptions, outcome)
    hist,           \* user id -> accepted answers since the session's last start, whether it jumped, and the order of selection
    fuel            \* number of events the transport may still deliver

vars == <<state, sheet_rows, responses_csv, log_errors, pending, last, hist, fuel>>

----------------------------------------------------------------------------
(* Bounds of the model *)

MaxEvents == 7
MaxUnitEvents == 4
MaxTwoEvents == 3
MaxPending == 1
NumOptions == 2

Users == {"u1", "u2"}

----------------------------------------------------------------------------
(* Data of the program *)

LANGS == {"ru", "uz"}

FEATURES ==
    << <<"f1">>, <<"f2">>, <<"f3">>, <<"f4">>, <<"f5">>, <<"f6">> >>

SURVEY_KEYS ==
    << [key |-> "company",        text_key |-> "q_company",       type |-> "text",        options |-> {}],
       [key |-> "city",           text_key |-> "q_city",          type |-> "text",        options |-> {}],
       [key |-> "fleet_size",     text_key |-> "q_fleet",         type |-> "text",        options |-> {}],
       [key |-> "lead_channels",  text_key |-> "q_leads",         type |-> "text",        options |-> {}],
       [key |-> "features",       text_key |-> "q_features",      type |-> "multiselect", options |-> {}],
       [key |-> "pilot_interest", text_key |-> "q_pilot",         type |-> "choice",
        options |-> { <<"D", "a">>, <<"N", "e", "t">> }],
       [key |-> "contact_name",   text_key |-> "q_contact_name",  type |-> "text",        options |-> {}],
       [key |-> "contact_phone",  text_key |-> "q_contact_phone", type |-> "phone",       options |-> {}] >>

AnswerKeys ==
    { SURVEY_KEYS[i].key : i \in 1..Len(SURVEY_KEYS) }

(* Inputs the transport can deliver *)

Texts ==
    { <<"D", "a">>, <<"d", "a">>, <<" ", "D", "a">> }

ChoiceValues ==
    { <<"D", "a">>, <<"N", "e", "t">> }

PhoneNumbers ==
    { <<"9", "9", "8">> }

LangTokens ==
    { "ru", "uz", "xx" }

OptionTokens ==
    { FEATURES[i] : i \in 1..NumOptions }

----------------------------------------------------------------------------
(* Pure helpers *)

RECURSIVE lstrip(_)
lstrip(s) ==
    IF s # <<>> /\ Head(s) = " " THEN lstrip(Tail(s)) ELSE s

RECURSIVE rstrip(_)
rstrip(s) ==
    IF s # <<>> /\ s[Len(s)] = " " THEN rstrip(SubSeq(s, 1, Len(s) - 1)) ELSE s

(* strip() left out: the text is used as sent *)
strip_none(s) ==
    s

strip(s) ==
    rstrip(lstrip(s))

RECURSIVE join(_)
join(labels) ==
    IF labels = <<>> THEN <<>>
    ELSE IF Len(labels) = 1 THEN labels[1]
    ELSE labels[1] \o <<",", " ">> \o join(Tail(labels))

(* the orders in which iterating a set may yield its elements *)
Orders(S) ==
    { o \in [1..Cardinality(S) -> S] : \A i, j \in 1..Cardinality(S) : i # j => o[i] # o[j] }

text_for(lang, key) ==
    << IF lang \notin LANGS THEN "ru" ELSE lang, key >>

NoAnswers ==
    [k \in {} |-> <<>>]

DefaultState ==
    [q |-> 0, answers |-> NoAnswers, features_selected |-> {}, lang |-> "ru"]

Put(d, k, v) ==
    [x \in (DOMAIN d) \cup {k} |-> IF x = k THEN v ELSE d[x]]

(* the pop left out: the entry stays *)
Pop_keeps(d, k) ==
    d

Pop(d, k) ==
    [x \in (DOMAIN d) \ {k} |-> d[x]]

Get(d, k, default) ==
    IF k \in DOMAIN d THEN d[k] ELSE default

get_user_state(S, u) ==
    IF u \in DOMAIN S THEN S ELSE Put(S, u, DefaultState)

get_lang(S, u) ==
    get_user_state(S, u)[u].lang

set_lang(S, u, lang) ==
    [get_user_state(S, u) EXCEPT ![u].lang = IF lang \notin LANGS THEN "ru" ELSE lang]

----------------------------------------------------------------------------
(* Observation of one handler step *)

Obs(u, ev, arg, outcome, sent, exc, asked, fin) ==
    [user |-> u, ev |-> ev, arg |-> arg, outcome |-> outcome, sent |-> sent,
     exc |-> exc, asked |-> asked, fin |-> fin]

NoHistory ==
    [n |-> 0, jumped |-> FALSE, on |-> <<>>]

(* the options still selected, in the order in which they were toggled on *)
ToggledOn(on, opt) ==
    IF \E i \in 1..Len(on) : on[i] = opt
    THEN SelectSeq(on, LAMBDA e : e # opt)
    ELSE Append(on, opt)

(* the history kept per user: accepted answers since the last start, the jump flag,
   and the selected options in the order of their selection *)
Track(h, o) ==
    [u \in Users |->
        IF o.user # u THEN h[u]
        ELSE IF o.outcome \in {"Reset", "Cancel", "Completed"} THEN NoHistory
        ELSE IF o.outcome = "Jump" THEN [h[u] EXCEPT !.n = 0, !.jumped = TRUE]
        ELSE IF o.outcome = "Advance" /\ ~h[u].jumped THEN [h[u] EXCEPT !.n = @ + 1]
        ELSE IF o.outcome = "Updated" THEN [h[u] EXCEPT !.on = ToggledOn(@, o.arg)]
        ELSE h[u]]

Init ==
    /\ state = [u \in {} |-> DefaultState]
    /\ sheet_rows = <<>>
    /\ responses_csv = <<>>
    /\ log_errors = <<>>
    /\ pending = [u \in Users |-> 0]
    /\ last = Obs("none", "init", <<>>, "None", <<>>, "none", -1, 0)
    /\ hist = [u \in Users |-> NoHistory]
    /\ fuel = MaxEvents

(* a handler step that ends the handler *)
Finish(S, o) ==
    /\ fuel > 0
    /\ fuel' = fuel - 1
    /\ state' = S
    /\ last' = o
    /\ hist' = Track(hist, o)
    /\ UNCHANGED <<sheet_rows, responses_csv, log_errors, pending>>

(* a handler step that stops at an await; the rest of the handler is the call of ask_next_question *)
Suspend(S, o) ==
    /\ fuel > 0
    /\ fuel' = fuel - 1
    /\ pending[o.user] < MaxPending
    /\ state' = S
    /\ last' = o
    /\ hist' = Track(hist, o)
    /\ pending' = [pending EXCEPT ![o.user] = @ + 1]
    /\ UNCHANGED <<sheet_rows, responses_csv, log_errors>>


----------------------------------------------------------------------------
(* Messages: a text of the localisation table and a reply markup *)

Msg(text, markup) ==
    [text |-> text, markup |-> markup]

NoMarkup == <<>>

ReplyKeyboardRemove == <<"ReplyKeyboardRemove">>

kb_lang_choice == <<"kb_lang_choice">>

kb_main(lang) ==
    <<"kb_main", text_for(lang, "main_take_survey")[1]>>

(* one row per option with its mark (TRUE for the checked mark), then the rows of
   the "done" and "cancel" controls *)
kb_features(selected, options, lang) ==
    << "kb_features",
       [i \in 1..Len(options) |-> [opt |-> options[i], mark |-> options[i] \in selected]],
       text_for(lang, "features_done")[1], text_for(lang, "cancel")[1] >>

(* the question a handler looks up; the lookup raises IndexError at q = len(SURVEY_KEYS) *)
InRange(S, u) ==
    S[u].q < Len(SURVEY_KEYS)

Question(S, u) ==
    SURVEY_KEYS[S[u].q + 1]

(* ask_next_question as the handlers reach it: the definition at line 454.  It reads
   the session and its cursor, then evaluates len(SURVEY); no statement of bot.py binds
   the name SURVEY, so the call raises NameError before anything is sent and before
   finish_survey is called. *)
ask_next_question(S, u) ==
    LET S1 == get_user_state(S, u)
    IN  [S |-> S1, asked |-> S1[u].q, sent |-> <<>>, exc |-> "NameError", fin |-> 0]

(* the cursor moved by two: the answer of the next question is skipped *)
store_answer_skips(S, u, key, value) ==
    [S EXCEPT ![u].answers = Put(@, key, value), ![u].q = @ + 2]

(* the answer stored under the question's text_key and not under its key *)
store_answer_under_text_key(S, u, key, value) ==
    [S EXCEPT ![u].answers = Put(@, SURVEY_KEYS[S[u].q + 1].text_key, value), ![u].q = @ + 1]

(* an empty value is not stored: the key stays absent *)
store_answer_skips_empty(S, u, key, value) ==
    IF value = <<>>
    THEN [S EXCEPT ![u].q = @ + 1]
    ELSE [S EXCEPT ![u].answers = Put(@, key, value), ![u].q = @ + 1]

(* the cursor moved without the answer being stored *)
store_answer_moves_cursor_only(S, u, key, value) ==
    [S EXCEPT ![u].q = @ + 1]

(* one answers dict shared by all sessions: the answer shows in every user's session *)
store_answer_shared(S, u, key, value) ==
    [v \in DOMAIN S |->
        IF v = u THEN [S[v] EXCEPT !.answers = Put(@, key, value), !.q = @ + 1]
        ELSE [S[v] EXCEPT !.answers = Put(@, key, value)]]

(* st["answers"][q["key"]] = value; st["q"] += 1 -- the two statements every accepting
   branch runs (lines 355-356, 377-378, 385-386, 390-391, 420-421, 435-436) *)
store_answer(S, u, key, value) ==
    [S EXCEPT ![u].answers = Put(@, key, value), ![u].q = @ + 1]

(* the return after the corrective message left out: the text is stored all the same *)
rejected_text_falls_through(S, u, key, value) ==
    [S EXCEPT ![u].answers = Put(@, key, value), ![u].q = @ + 1]

(* the branches of on_text that answer "press_buttons": nothing is assigned (lines 382-384, 394-395) *)
rejected_text(S, u, key, value) ==
    S

----------------------------------------------------------------------------
(* Handlers *)

cmd_start(u) ==
    LET S1 == get_user_state(state, u)
        lang == get_lang(S1, u)
    IN  IF S1[u].lang \notin LANGS
        THEN Finish(S1, Obs(u, "cmd_start", <<>>, "None",
                 << Msg(text_for("ru", "choose_lang"), kb_lang_choice) >>, "none", -1, 0))
        ELSE Finish(S1, Obs(u, "cmd_start", <<>>, "None",
                 << Msg(text_for(lang, "start_msg"), kb_main(lang)) >>, "none", -1, 0))

cmd_lang(u) ==
    LET S1 == get_user_state(state, u)
    IN  Finish(S1, Obs(u, "cmd_lang", <<>>, "None",
            << Msg(text_for(get_lang(S1, u), "choose_lang"), kb_lang_choice) >>, "none", -1, 0))

cb_set_lang(u, lang) ==
    LET S1 == set_lang(state, u, lang)
    IN  Finish(S1, Obs(u, "cb_set_lang", <<lang>>, "None",
            << Msg(text_for(lang, "start_msg"), kb_main(lang)) >>, "none", -1, 0))

(* the reset without st["features_selected"] = set() *)
cb_start_survey_keeps_selection(u) ==
    LET S0 == get_user_state(state, u)
        S1 == [S0 EXCEPT ![u].q = 0, ![u].answers = NoAnswers]
    IN  Suspend(S1, Obs(u, "cb_start_survey", <<>>, "Reset",
            << Msg(text_for(get_lang(S1, u), "survey_intro"), NoMarkup) >>, "none", -1, 0))

cb_start_survey(u) ==
    LET S0 == get_user_state(state, u)
        S1 == [S0 EXCEPT ![u].q = 0, ![u].answers = NoAnswers, ![u].features_selected = {}]
    IN  Suspend(S1, Obs(u, "cb_start_survey", <<>>, "Reset",
            << Msg(text_for(get_lang(S1, u), "survey_intro"), NoMarkup) >>, "none", -1, 0))

cmd_cancel(u) ==
    LET S1 == Pop(state, u)
        S2 == get_user_state(S1, u)
    IN  Finish(S2, Obs(u, "cmd_cancel", <<>>, "Cancel",
            << Msg(text_for(get_lang(S1, u), "cancelled"), ReplyKeyboardRemove) >>, "none", -1, 0))

cb_cancel(u) ==
    LET S1 == Pop(state, u)
        S2 == get_user_state(S1, u)
    IN  Finish(S2, Obs(u, "cb_cancel", <<>>, "Cancel",
            << Msg(text_for(get_lang(S1, u), "cancelled"), ReplyKeyboardRemove) >>, "none", -1, 0))

(* the jump that also empties the answers, as a reset would *)
cb_leave_contact_clears(u) ==
    LET S0 == get_user_state(state, u)
        S1 == [S0 EXCEPT ![u].q = Len(SURVEY_KEYS) - 2, ![u].answers = NoAnswers]
    IN  Finish(S1, Obs(u, "cb_leave_contact", <<>>, "Jump",
            << Msg(text_for(get_lang(S1, u), "q_contact_name"), NoMarkup) >>, "none", -1, 0))

cb_leave_contact(u) ==
    LET S0 == get_user_state(state, u)
        S1 == [S0 EXCEPT ![u].q = Len(SURVEY_KEYS) - 2]
    IN  Finish(S1, Obs(u, "cb_leave_contact", <<>>, "Jump",
            << Msg(text_for(get_lang(S1, u), "q_contact_name"), NoMarkup) >>, "none", -1, 0))

on_contact(u, phone_number) ==
    LET S0 == get_user_state(state, u)
        q  == Question(S0, u)
        S1 == store_answer(S0, u, q.key, phone_number)
    IN  IF ~InRange(S0, u)
        THEN Finish(S0, Obs(u, "on_contact", phone_number, "None", <<>>, "IndexError", -1, 0))
        ELSE IF q.type = "phone"
        THEN Suspend(S1, Obs(u, "on_contact", phone_number, "Advance",
                 << Msg(text_for(get_lang(S1, u), "thanks"), ReplyKeyboardRemove) >>, "none", -1, 0))
        ELSE Finish(S0, Obs(u, "on_contact", phone_number, "Ignored", <<>>, "none", -1, 0))

on_text(u, text) ==
    LET S0   == get_user_state(state, u)
        lang == get_lang(S0, u)
        q    == Question(S0, u)
        val  == strip(text)
        S1   == store_answer(S0, u, q.key, val)
        R1   == rejected_text(S0, u, q.key, val)
        ask  == ask_next_question(S1, u)
    IN  IF ~InRange(S0, u)
        THEN Finish(S0, Obs(u, "on_text", text, "None",
                 << Msg(<<"ru", "survey_is_over">>, NoMarkup) >>, "none", -1, 0))
        ELSE IF q.type = "text"
        THEN Finish(ask.S, Obs(u, "on_text", text, "Advance", ask.sent, ask.exc, ask.asked, ask.fin))
        ELSE IF q.type = "choice"
        THEN IF val \notin q.options
             THEN Finish(R1, Obs(u, "on_text", text, "Reject",
                      << Msg(text_for(lang, "press_buttons"), NoMarkup) >>, "none", -1, 0))
             ELSE Suspend(S1, Obs(u, "on_text", text, "Advance",
                      << Msg(text_for(lang, "ans"), NoMarkup) >>, "none", -1, 0))
        ELSE IF q.type = "phone"
        THEN Suspend(S1, Obs(u, "on_text", text, "Advance",
                 << Msg(text_for(lang, "thanks"), ReplyKeyboardRemove) >>, "none", -1, 0))
        ELSE Finish(R1, Obs(u, "on_text", text, "Reject",
                 << Msg(text_for(lang, "press_buttons"), NoMarkup) >>, "none", -1, 0))

(* the option added whether it was selected or not *)
Toggle_adds(selected, opt) ==
    selected \cup {opt}

(* the set after the toggle of lines 406-409 *)
Toggle(selected, opt) ==
    IF opt \in selected THEN selected \ {opt} ELSE selected \cup {opt}

(* FEATURES[get_lang(...)] at line 412: FEATURES is the list of line 202, and a list
   indexed by a string raises TypeError, so edit_reply_markup is never awaited *)
cb_toggle_feature(u, opt) ==
    LET S0 == get_user_state(state, u)
        q  == Question(S0, u)
        S1 == [S0 EXCEPT ![u].features_selected = Toggle(@, opt)]
    IN  IF ~InRange(S0, u)
        THEN Finish(S0, Obs(u, "cb_toggle_feature", opt, "None", <<>>, "IndexError", -1, 0))
        ELSE IF q.type # "multiselect"
        THEN Finish(S0, Obs(u, "cb_toggle_feature", opt, "Ignored", <<>>, "none", -1, 0))
        ELSE Finish(S1, Obs(u, "cb_toggle_feature", opt, "Updated", <<>>, "TypeError", -1, 0))

(* ", ".join(set) takes the elements in the set's iteration order, which for strings
   depends on the interpreter's hash seed: any order of the elements *)
cb_feature_done(u) ==
    LET S0 == get_user_state(state, u)
        q  == Question(S0, u)
    IN  IF ~InRange(S0, u)
        THEN Finish(S0, Obs(u, "cb_feature_done", <<>>, "None", <<>>, "IndexError", -1, 0))
        ELSE \E order \in Orders(S0[u].features_selected) :
               LET value == IF S0[u].features_selected # {} THEN join(order) ELSE <<>>
                   S1    == store_answer(S0, u, q.key, value)
               IN  Suspend(S1, Obs(u, "cb_feature_done", <<>>, "Advance",
                       << Msg(text_for(get_lang(S1, u), "done_ok"), NoMarkup) >>, "none", -1, 0))

cb_choice(u, val) ==
    LET S0 == get_user_state(state, u)
        q  == Question(S0, u)
        S1 == store_answer(S0, u, q.key, val)
    IN  IF ~InRange(S0, u)
        THEN Finish(S0, Obs(u, "cb_choice", val, "None", <<>>, "IndexError", -1, 0))
        ELSE IF q.type # "choice"
        THEN Finish(S0, Obs(u, "cb_choice", val, "Ignored", <<>>, "none", -1, 0))
        ELSE Suspend(S1, Obs(u, "cb_choice", val, "Advance",
                 << Msg(text_for(get_lang(S1, u), "ans"), NoMarkup) >>, "none", -1, 0))

(* a suspended handler goes on: its next statement is await ask_next_question(...) *)
resume_ask_next_question(u) ==
    LET ask == ask_next_question(state, u)
    IN  /\ pending[u] > 0
        /\ pending' = [pending EXCEPT ![u] = @ - 1]
        /\ state' = ask.S
        /\ last' = Obs(u, "ask_next_question", <<>>, "None", ask.sent, ask.exc, ask.asked, ask.fin)
        /\ UNCHANGED <<sheet_rows, responses_csv, log_errors, hist, fuel>>

----------------------------------------------------------------------------
(* Completion *)

SheetStates ==
    {"None", "ok", "raise"}

(* the answers written as they are: a key the user never answered is left out of the row *)
Row_without_defaults(u, answers) ==
    [user_id |-> u, cols |-> answers]

(* the row of lines 573-585; timestamp and username are left out *)
Row(u, answers) ==
    [user_id |-> u, cols |-> [k \in AnswerKeys |-> Get(answers, k, <<>>)]]

(* save_response_to_sheet: sheet is "None" when _init_sheets bound no worksheet (line 178),
   "ok" when sheet.append_row returns and "raise" when it raises (line 196) *)
save_response_to_sheet(row, sheet) ==
    IF sheet = "None"
    THEN [ok |-> FALSE, attempts |-> 0, rows |-> sheet_rows,
          log |-> <<"Sheet is not available; skip append">>]
    ELSE IF sheet = "ok"
    THEN [ok |-> TRUE, attempts |-> 1, rows |-> Append(sheet_rows, row), log |-> <<>>]
    ELSE [ok |-> FALSE, attempts |-> 1, rows |-> sheet_rows,
          log |-> <<"Append to sheet failed">>]

(* finish_survey, called for user u; csv_ok is whether the write of responses.csv
   succeeds or raises.  Everything up to the final await runs without suspension. *)
finish_survey(u, sheet, csv_ok) ==
    LET S0      == get_user_state(state, u)
        row     == Row(u, S0[u].answers)
        saved   == save_response_to_sheet(row, sheet)
        tried   == ~saved.ok
        ok      == saved.ok \/ (tried /\ csv_ok)
        csvlog  == IF tried /\ ~csv_ok THEN <<"Local CSV write failed">> ELSE <<>>
        reply   == IF ok THEN <<"ru", "saved_ok">> ELSE <<"ru", "saved_local">>
    IN  /\ fuel > 0
        /\ fuel' = fuel - 1
        /\ sheet_rows' = saved.rows
        /\ responses_csv' = IF tried /\ csv_ok THEN Append(responses_csv, row) ELSE responses_csv
        /\ log_errors' = log_errors \o saved.log \o csvlog
        /\ state' = Pop(S0, u)
        /\ last' = Obs(u, "finish_survey", <<>>, "Completed",
                       << Msg(reply, ReplyKeyboardRemove) >>, "none", -1, 1)
              @@ [sheet_attempts |-> saved.attempts, csv_attempts |-> IF tried THEN 1 ELSE 0,
                  primary |-> saved.ok, local |-> tried /\ csv_ok]
        /\ hist' = Track(hist, last')
        /\ UNCHANGED pending

----------------------------------------------------------------------------
(* The program: the transport delivers any event of any user at any time *)

Deliver(U) ==
    \/ \E u \in U : cmd_start(u)
    \/ \E u \in U : cmd_lang(u)
    \/ \E u \in U, lang \in LangTokens : cb_set_lang(u, lang)
    \/ \E u \in U : cb_start_survey(u)
    \/ \E u \in U : cmd_cancel(u)
    \/ \E u \in U : cb_cancel(u)
    \/ \E u \in U : cb_leave_contact(u)
    \/ \E u \in U, phone_number \in PhoneNumbers : on_contact(u, phone_number)
    \/ \E u \in U, text \in Texts : on_text(u, text)
    \/ \E u \in U, opt \in OptionTokens : cb_toggle_feature(u, opt)
    \/ \E u \in U : cb_feature_done(u)
    \/ \E u \in U, val \in ChoiceValues : cb_choice(u, val)
    \/ \E u \in U : resume_ask_next_question(u)

(* the events of one user, delivered in any order *)
Next ==
    Deliver({"u1"})

Spec ==
    Init /\ [][Next]_vars

(* the handlers together with direct calls of finish_survey(user_id, message) *)
InitUnit ==
    /\ state = [u \in {} |-> DefaultState]
    /\ sheet_rows = <<>>
    /\ responses_csv = <<>>
    /\ log_errors = <<>>
    /\ pending = [u \in Users |-> 0]
    /\ last = Obs("none", "init", <<>>, "None", <<>>, "none", -1, 0)
    /\ hist = [u \in Users |-> NoHistory]
    /\ fuel = MaxUnitEvents

NextUnit ==
    \/ Next
    \/ \E sheet \in SheetStates, csv_ok \in BOOLEAN : finish_survey("u1", sheet, csv_ok)

SpecUnit ==
    InitUnit /\ [][NextUnit]_vars

(* the events of two users interleaved in any order, completion included *)
InitTwo ==
    /\ state = [u \in {} |-> DefaultState]
    /\ sheet_rows = <<>>
    /\ responses_csv = <<>>
    /\ log_errors = <<>>
    /\ pending = [u \in Users |-> 0]
    /\ last = Obs("none", "init", <<>>, "None", <<>>, "none", -1, 0)
    /\ hist = [u \in Users |-> NoHistory]
    /\ fuel = MaxTwoEvents

NextTwo ==
    \/ Deliver(Users)
    \/ \E u \in Users, sheet \in SheetStates, csv_ok \in BOOLEAN : finish_survey(u, sheet, csv_ok)

SpecTwo ==
    InitTwo /\ [][NextTwo]_vars

----------------------------------------------------------------------------
(* Properties *)

(* the session a handler finds for u: the stored record, or the default one that
   get_user_state creates *)
Session(S, u) ==
    IF u \in DOMAIN S THEN S[u] ELSE DefaultState

SameProgress(a, b) ==
    /\ a.q = b.q
    /\ a.answers = b.answers
    /\ a.features_selected = b.features_selected

KindAt(sess) ==
    IF sess.q < Len(SURVEY_KEYS) THEN SURVEY_KEYS[sess.q + 1].type ELSE "none"

(* C1: a finalize-multiselect event (feat_done) at a session whose current question is
   not of kind multiselect leaves cursor, answers and pending selection unchanged. *)
C1_FinalizeOnlyAtMultiselect ==
    [][ \A u \in Users :
          (last'.ev = "cb_feature_done" /\ last'.user = u
             /\ KindAt(Session(state, u)) \notin {"multiselect", "none"})
          => SameProgress(Session(state', u), Session(state, u)) ]_vars

(* C2: when the cursor has reached the length of the schedule, the handler step that
   sees it produces exactly one completed response and leaves no progress of that
   user in the session store. *)
C2_CompletionOnceThenCleared ==
    last.asked = Len(SURVEY_KEYS)
    => /\ last.fin = 1
       /\ SameProgress(Session(state, last.user), DefaultState)

(* C3: after an accepted answer the handler renders the prompt of the question at the
   new cursor, or completes the survey when the new cursor is the schedule length. *)
C3_AdvanceRendersOrCompletes ==
    last.asked # -1
    => IF last.asked >= Len(SURVEY_KEYS)
       THEN last.fin = 1
       ELSE \E i \in 1..Len(last.sent) :
               last.sent[i].text[2] = SURVEY_KEYS[last.asked + 1].text_key

PressButtons(o) ==
    \E i \in 1..Len(o.sent) : o.sent[i].text[2] = "press_buttons"

(* t is s without its leading and trailing blanks *)
IsTrimOf(t, s) ==
    \E i, j \in 0..Len(s) :
        /\ i + j <= Len(s)
        /\ t = SubSeq(s, i + 1, Len(s) - j)
        /\ \A k \in 1..i : s[k] = " "
        /\ \A k \in (Len(s) - j + 1)..Len(s) : s[k] = " "
        /\ t # <<>> => (t[1] # " " /\ t[Len(t)] # " ")

ChoiceOptions ==
    SURVEY_KEYS[6].options

(* C4: typed text at the multiselect question, and typed text at the single-choice
   question that (blanks removed) is none of its option labels, is answered with the
   corrective message, and a text answered so leaves answers, cursor and pending
   selection as they were. *)
C4_RejectedTextMutatesNothing ==
    [][ \A u \in Users :
          LET pre  == Session(state, u)
              post == Session(state', u)
              case == \/ KindAt(pre) = "multiselect"
                      \/ /\ KindAt(pre) = "choice"
                         /\ \A o \in ChoiceOptions : ~IsTrimOf(o, last'.arg)
          IN  (last'.ev = "on_text" /\ last'.user = u)
              => /\ case => PressButtons(last')
                 /\ PressButtons(last') => SameProgress(post, pre) ]_vars

C4_Witness ==
    /\ last.ev = "on_text"
    /\ PressButtons(last)
    /\ "u1" \in DOMAIN state
    /\ state["u1"].q = 4
    /\ state["u1"].features_selected # {}
    /\ DOMAIN state["u1"].answers = {"company", "city", "fleet_size", "lead_channels"}

(* C5: the cursor is never negative; in a session that has not jumped it equals the
   number of answers accepted since the session was started; every accepted answer
   raises it by exactly one; and only start, the leave-contact jump, cancel and
   completion ever lower it. *)
C5_CursorCountsAcceptedAnswers ==
    /\ [](\A u \in DOMAIN state :
            /\ state[u].q >= 0
            /\ ~hist[u].jumped => state[u].q = hist[u].n)
    /\ [][ \A u \in Users :
             LET pre  == Session(state, u)
                 post == Session(state', u)
             IN  /\ (last'.user = u /\ last'.outcome = "Advance") => post.q = pre.q + 1
                 /\ post.q < pre.q
                    => /\ last'.user = u
                       /\ last'.ev \in {"cb_start_survey", "cb_leave_contact", "cmd_cancel",
                                        "cb_cancel", "finish_survey"} ]_vars

C5_Witness ==
    /\ "u1" \in DOMAIN state
    /\ state["u1"].q = 6
    /\ hist["u1"].n = 6
    /\ ~hist["u1"].jumped
    /\ last.outcome = "Advance"

(* the record finish_survey is to write for the session pre of user u *)
ExpectedRecord(u, pre) ==
    [user_id |-> u,
     cols |-> [k \in AnswerKeys |-> IF k \in DOMAIN pre.answers THEN pre.answers[k] ELSE <<>>]]

(* C6 as stated: whenever the primary persist returns false the fallback store
   receives exactly one record, with every key's answer or the empty string; when it
   returns true nothing is written to the fallback store. *)
C6_FallbackAlwaysReceivesRecord ==
    [][ last'.ev = "finish_survey"
        => LET rec == ExpectedRecord(last'.user, Session(state, last'.user))
           IN  /\ last'.primary => responses_csv' = responses_csv
               /\ ~last'.primary => responses_csv' = Append(responses_csv, rec) ]_vars

(* C6 amended: when the primary persist returns false exactly one write to the
   fallback store is attempted; if it succeeds the store receives exactly one record,
   with every key's answer or the empty string, and if it fails the store receives
   nothing; when the primary persist returns true nothing is written to it. *)
C6_FallbackReceivesRecordIfWritable ==
    [][ last'.ev = "finish_survey"
        => LET rec == ExpectedRecord(last'.user, Session(state, last'.user))
           IN  /\ last'.primary => (last'.csv_attempts = 0 /\ responses_csv' = responses_csv)
               /\ ~last'.primary
                  => /\ last'.csv_attempts = 1
                     /\ last'.local => responses_csv' = Append(responses_csv, rec)
                     /\ ~last'.local => responses_csv' = responses_csv ]_vars

C6_Witness ==
    /\ last.ev = "finish_survey"
    /\ ~last.primary
    /\ last.local
    /\ Len(responses_csv) = 1
    /\ responses_csv[1].cols["contact_name"] # <<>>
    /\ responses_csv[1].cols["company"] = <<>>

(* C7: whatever the two stores do, completion tries each store it uses once, removes
   the session, raises nothing and sends exactly one message, a success-shaped one;
   when both stores fail the failure is logged. *)
C7_CompletionNeverFailsTheUser ==
    last.ev = "finish_survey"
    => /\ last.sheet_attempts <= 1
       /\ last.csv_attempts <= 1
       /\ last.user \notin DOMAIN state
       /\ last.exc = "none"
       /\ Len(last.sent) = 1
       /\ last.sent[1].text[2] \in {"saved_ok", "saved_local"}
       /\ (~last.primary /\ ~last.local)
          => /\ log_errors # <<>>
             /\ log_errors[Len(log_errors)] = "Local CSV write failed"

C7_Witness ==
    /\ last.ev = "finish_survey"
    /\ last.sheet_attempts = 1
    /\ ~last.primary
    /\ ~last.local
    /\ last.sent[1].text[2] = "saved_local"
    /\ sheet_rows = <<>>
    /\ responses_csv = <<>>

(* C8: when a cancel handler has finished, the session store holds no record of the user. *)
C8_CancelLeavesNoRecord ==
    last.ev \in {"cmd_cancel", "cb_cancel"} => last.user \notin DOMAIN state

(* C9: a session holds selected options only while its cursor is at the multiselect question. *)
C9_SelectionOnlyAtMultiselect ==
    \A u \in DOMAIN state :
        state[u].features_selected # {} => KindAt(state[u]) = "multiselect"

(* C10 as stated: typed text at the single-choice question is accepted exactly when
   the text as sent is one of the option labels. *)
C10_AcceptedIffExactAsSent ==
    [][ \A u \in Users :
          LET pre  == Session(state, u)
              post == Session(state', u)
          IN  (last'.ev = "on_text" /\ last'.user = u /\ KindAt(pre) = "choice")
              => (post.q = pre.q + 1 <=> last'.arg \in ChoiceOptions) ]_vars

(* C10 amended: typed text at the single-choice question is accepted exactly when the
   text without its leading and trailing blanks is one of the option labels, letter
   case included; the value stored is that trimmed text, and a text not accepted
   changes nothing. *)
C10_AcceptedIffTrimmedIsLabel ==
    [][ \A u \in Users :
          LET pre  == Session(state, u)
              post == Session(state', u)
              acc  == post.q = pre.q + 1
          IN  (last'.ev = "on_text" /\ last'.user = u /\ KindAt(pre) = "choice")
              => /\ acc <=> \E o \in ChoiceOptions : IsTrimOf(o, last'.arg)
                 /\ acc => /\ "pilot_interest" \in DOMAIN post.answers
                           /\ IsTrimOf(post.answers["pilot_interest"], last'.arg)
                 /\ ~acc => SameProgress(post, pre) ]_vars

C10_Witness ==
    /\ last.ev = "on_text"
    /\ last.arg = <<" ", "D", "a">>
    /\ last.outcome = "Advance"
    /\ "u1" \in DOMAIN state
    /\ state["u1"].q = 6
    /\ state["u1"].answers["pilot_interest"] = <<"D", "a">>

(* C11: the value stored under 'features' by a finalize at the multiselect question
   is the options selected at that moment joined by the delimiter in the order in
   which they were toggled on, so that the same events always store the same string. *)
C11_StoredSelectionInToggleOrder ==
    [][ \A u \in Users :
          (last'.ev = "cb_feature_done" /\ last'.user = u
             /\ KindAt(Session(state, u)) = "multiselect")
          => /\ "features" \in DOMAIN Session(state', u).answers
             /\ Session(state', u).answers["features"] = join(hist[u].on) ]_vars
(* C12: a /start of a user who has no session, and so has chosen no language, is
   answered with the language prompt and not with the main menu. *)
C12_StartWithoutLocaleAsksLanguage ==
    [][ \A u \in Users :
          (last'.ev = "cmd_start" /\ last'.user = u /\ u \notin DOMAIN state)
          => /\ Len(last'.sent) = 1
             /\ last'.sent[1].text[2] = "choose_lang"
             /\ last'.sent[1].markup = kb_lang_choice ]_vars
(* C13: a handler step of one user leaves every other user's session as it was:
   its cursor, answers, selected options and language, and whether it exists at all. *)
C13_SessionsAreIsolated ==
    [][ \A u \in Users :
          last'.user # u
          => /\ (u \in DOMAIN state') = (u \in DOMAIN state)
             /\ u \in DOMAIN state => state'[u] = state[u] ]_vars

C13_Witness ==
    /\ last.user = "u2"
    /\ last.ev = "finish_survey"
    /\ "u2" \notin DOMAIN state
    /\ "u1" \in DOMAIN state
    /\ state["u1"].lang = "uz"
    /\ state["u1"].q = 1
    /\ "company" \in DOMAIN state["u1"].answers
(* the session after value was stored under the key of its current question *)
Stored(pre, value) ==
    [pre EXCEPT !.answers = Put(@, SURVEY_KEYS[pre.q + 1].key, value), !.q = @ + 1]

(* C14: a feature toggle when the current question is not multiselect, a button choice
   when it is not choice and a shared contact when it is not phone leave cursor,
   answers and selected options unchanged; at the matching kind a toggle changes
   nothing but the selected options, and a choice or contact stores the value as sent
   under the current question's key and raises the cursor by one. *)
C14_ButtonsOnlyAtMatchingKind ==
    [][ \A u \in Users :
          LET pre  == Session(state, u)
              post == Session(state', u)
          IN  last'.user = u
              => /\ last'.ev = "cb_toggle_feature"
                    => IF KindAt(pre) = "multiselect"
                       THEN post.q = pre.q /\ post.answers = pre.answers /\ post.lang = pre.lang
                       ELSE post = pre
                 /\ last'.ev = "cb_choice"
                    => IF KindAt(pre) = "choice" THEN post = Stored(pre, last'.arg) ELSE post = pre
                 /\ last'.ev = "on_contact"
                    => IF KindAt(pre) = "phone" THEN post = Stored(pre, last'.arg) ELSE post = pre ]_vars

C14_Witness ==
    /\ last.ev = "cb_choice"
    /\ last.arg = <<"N", "e", "t">>
    /\ "u1" \in DOMAIN state
    /\ state["u1"].q = 6
    /\ "pilot_interest" \in DOMAIN state["u1"].answers
    /\ state["u1"].answers["pilot_interest"] = <<"N", "e", "t">>
    /\ "features" \in DOMAIN state["u1"].answers
(* C15: whatever the session was, right after a start-survey event its cursor is 0,
   it has no answers and no selected options, and its language is the one it had. *)
C15_StartResetsProgressKeepsLocale ==
    [][ \A u \in Users :
          (last'.ev = "cb_start_survey" /\ last'.user = u)
          => /\ u \in DOMAIN state'
             /\ state'[u].q = 0
             /\ state'[u].answers = NoAnswers
             /\ state'[u].features_selected = {}
             /\ state'[u].lang = Session(state, u).lang ]_vars

(* a start delivered as the last of MaxEvents events to a session whose language is "uz" *)
C15_Witness ==
    /\ last.ev = "cb_start_survey"
    /\ fuel = 0
    /\ sheet_rows = <<>>
    /\ "u1" \in DOMAIN state
    /\ state["u1"] = [DefaultState EXCEPT !.lang = "uz"]
(* the cursor (counted from 0) of the question with the given key *)
IndexOfKey(key) ==
    CHOOSE i \in 0..(Len(SURVEY_KEYS) - 1) : SURVEY_KEYS[i + 1].key = key

(* C16: the leave-contact event sets the cursor to the index of the contact_name
   question and leaves answers, selected options and language as they were, whatever
   the cursor was. *)
C16_LeaveContactMovesCursorOnly ==
    [][ \A u \in Users :
          (last'.ev = "cb_leave_contact" /\ last'.user = u)
          => /\ u \in DOMAIN state'
             /\ state'[u] = [Session(state, u) EXCEPT !.q = IndexOfKey("contact_name")] ]_vars

C16_Witness ==
    /\ last.ev = "cb_leave_contact"
    /\ "u1" \in DOMAIN state
    /\ state["u1"].q = 6
    /\ state["u1"].lang = "uz"
    /\ state["u1"].features_selected # {}
    /\ DOMAIN state["u1"].answers = {"company", "city", "fleet_size", "lead_channels"}
(* C17: a toggle accepted at the multiselect question adds the option if it was not
   selected and removes it if it was, and changes the membership of no other option;
   the same toggle applied to the result gives back the set as it was before. *)
C17_ToggleFlipsOneOption ==
    [][ \A u \in Users :
          LET pre  == Session(state, u).features_selected
              post == Session(state', u).features_selected
              opt  == last'.arg
          IN  (last'.ev = "cb_toggle_feature" /\ last'.user = u
                 /\ KindAt(Session(state, u)) = "multiselect")
              => /\ (opt \in post) = (opt \notin pre)
                 /\ post \ {opt} = pre \ {opt}
                 /\ Toggle(post, opt) = pre ]_vars

(* the second of two toggles of one option: the selection is empty again *)
C17_Witness ==
    /\ last.ev = "cb_toggle_feature"
    /\ last.outcome = "Updated"
    /\ "u1" \in DOMAIN state
    /\ state["u1"].q = 4
    /\ state["u1"].features_selected = {}
(* C18: every session's cursor is between 0 and the length of the schedule, and no
   handler looks up the schedule with a cursor that is not strictly below that length
   (such a lookup raises IndexError). *)
C18_CursorInRangeAndLookupsBelowLen ==
    /\ \A u \in DOMAIN state : state[u].q \in 0..Len(SURVEY_KEYS)
    /\ last.exc # "IndexError"

(* C19: a finalize at the multiselect question with no option selected stores the
   empty string under 'features' (the key is present), leaves the other answers
   alone and raises the cursor by one. *)
C19_EmptySelectionStoresEmptyString ==
    [][ \A u \in Users :
          LET pre  == Session(state, u)
              post == Session(state', u)
          IN  (last'.ev = "cb_feature_done" /\ last'.user = u
                 /\ KindAt(pre) = "multiselect" /\ pre.features_selected = {})
              => /\ "features" \in DOMAIN post.answers
                 /\ post.answers["features"] = <<>>
                 /\ DOMAIN post.answers = DOMAIN pre.answers \cup {"features"}
                 /\ \A k \in DOMAIN pre.answers \ {"features"} : post.answers[k] = pre.answers[k]
                 /\ post.q = pre.q + 1 ]_vars

C19_Witness ==
    /\ last.ev = "cb_feature_done"
    /\ "u1" \in DOMAIN state
    /\ state["u1"].q = 5
    /\ state["u1"].features_selected = {}
    /\ DOMAIN state["u1"].answers = {"company", "city", "fleet_size", "lead_channels", "features"}
    /\ state["u1"].answers["features"] = <<>>
(* C20: a toggle that updated the selected options has re-rendered the options view:
   it raised nothing and sent the keyboard with one button per offered option, marked
   checked exactly when the option is among the session's selected options. *)
C20_ToggleRerendersOptionsView ==
    (last.ev = "cb_toggle_feature" /\ last.outcome = "Updated")
    => /\ last.exc = "none"
       /\ \E i \in 1..Len(last.sent) :
             last.sent[i].markup
               = kb_features(state[last.user].features_selected, FEATURES, state[last.user].lang)
(* C21: a text message of a user who has no session, and so has pressed neither
   start-survey nor leave-contact (the first message ever, or the first after the
   session was removed), stores no answer and does not move the cursor. *)
C21_NoAnswerBeforeSurveyBegun ==
    [][ \A u \in Users :
          (last'.ev = "on_text" /\ last'.user = u /\ u \notin DOMAIN state)
          => SameProgress(Session(state', u), DefaultState) ]_vars
(* C22: while a handler of the same user is suspended at an await, a toggle,
   finalize, choice or contact event is either applied or ignored: it never looks up
   the schedule at a cursor out of range, that is, it never raises IndexError. *)
C22_InterleavedEventsNeverOutOfRange ==
    \A u \in Users :
        (last.user = u /\ pending[u] > 0
           /\ last.ev \in {"cb_toggle_feature", "cb_feature_done", "cb_choice", "on_contact"})
        => last.exc # "IndexError"
(* C23: every message a handler sends while handling an event of a user is the text
   of the language the user's session had when the event arrived, the acknowledgement
   of a cancel included (the event that selects a language is answered in the new one). *)
C23_MessagesInSessionLocale ==
    [][ \A u \in Users :
          (last'.user = u /\ last'.ev # "cb_set_lang")
          => \A i \in 1..Len(last'.sent) :
                last'.sent[i].text[1] = Session(state, u).lang ]_vars
(* the keys of the questions at indexes below cursor q *)
KeysBelow(q) ==
    { SURVEY_KEYS[i].key : i \in 1..q }

(* C24: the keys of every session's answers are keys of the schedule, and in a session
   that has not jumped to the contact questions since its last start the answered
   keys are exactly the keys of the questions below the cursor. *)
C24_AnswersMatchCursor ==
    \A u \in DOMAIN state :
        /\ DOMAIN state[u].answers \subseteq AnswerKeys
        /\ ~hist[u].jumped => DOMAIN state[u].answers = KeysBelow(state[u].q)

(* a session that was never jumped, with the six answers below its cursor, the one of
   the multiselect question and the one of the choice question included *)
C24_Witness ==
    /\ "u1" \in DOMAIN state
    /\ ~hist["u1"].jumped
    /\ state["u1"].q = 6
    /\ DOMAIN state["u1"].answers = KeysBelow(6)
    /\ pending["u1"] = 1
====
